---- MODULE Spec2Model ----
(***************************************************************************)
(* kubectl wait: translation of a --for condition string into a Waiter.    *)
(* Model of pkg/cmd/wait/waiter.go: waiterFor, newJSONPathParser and       *)
(* processJSONPathInput.  A Go string is a sequence of one-character       *)
(* strings.  Every function is an operator computed the way the code       *)
(* computes it; the state machine draws a call and its arguments in Init   *)
(* and one action per function carries the call to its return.             *)
(***************************************************************************)
EXTENDS Integers, Sequences, FiniteSets, TLC

VARIABLES call, args, pc, ret

vars == <<call, args, pc, ret>>

(* ------------------------------ bounds -------------------------------- *)

\* longest free-form tail / path / expected value drawn for a call
MaxLen == 3

(* ---------------------------- input domains --------------------------- *)

\* characters of the free-form part of a condition string
Chars == {"=", "'", "\"", "d", "{", "}", ".", "["}

\* characters of a path expression handed to the path functions directly
PathChars == {"{", "}", ".", "d", "["}

\* characters of an expected value handed to processJSONPathInput directly
CondChars == {"'", "\"", "d", "="}

StrOver(A, n) == UNION {[1..k -> A] : k \in 0..n}

\* fixed beginnings of condition strings; a free-form tail is appended
Heads ==
  { <<>>,
    <<"d","e","l","e","t","e">>,
    <<"D","E","L","E","T","E">>,
    <<"D","e","l","e","t","e">>,
    <<"d","E","l","E","t","E">>,
    <<"d","e","l","e","t">>,
    <<"c","o","n","d","i","t","i","o","n","=">>,
    <<"C","o","n","d","i","t","i","o","n","=">>,
    <<"c","o","n","d","i","t","i","o","n">>,
    <<"c","o","n","d","i","t","i","o","n","=","R","e","a","d","y">>,
    <<"j","s","o","n","p","a","t","h","=">>,
    <<"J","S","O","N","P","A","T","H","=">>,
    <<"j","s","o","n","p","a","t","h">>,
    <<"j","s","o","n","p","a","t","h","=","{",".","d","}","=">>,
    <<"j","s","o","n","p","a","t","h","=","'","{",".","d","}","'","=">>,
    <<"f","o","o","=">>
  }

\* longer path expressions than MaxLen allows
PathSamples ==
  { <<"{",".","d","}">>,
    <<"{",".","d",".","d","}">>,
    <<"'","{",".","d","}","'">>,
    <<"{",".","d","[","}">>,
    <<"{",".","'","d","'","}">>
  }

Conditions == {h \o t : h \in Heads, t \in StrOver(Chars, MaxLen)}

PathExprs == StrOver(PathChars, MaxLen) \cup PathSamples

CondExprs == StrOver(CondChars, MaxLen)

(* ------------------------- package strings ---------------------------- *)

\* unicode.ToLower on the letters the inputs use; every other character
\* of the input domains has no case
LowerRune(c) ==
  CASE c = "A" -> "a" [] c = "C" -> "c" [] c = "D" -> "d" [] c = "E" -> "e"
    [] c = "H" -> "h" [] c = "I" -> "i" [] c = "J" -> "j" [] c = "L" -> "l"
    [] c = "N" -> "n" [] c = "O" -> "o" [] c = "P" -> "p" [] c = "R" -> "r"
    [] c = "S" -> "s" [] c = "T" -> "t"
    [] OTHER -> c

ToLower(s) == [i \in 1..Len(s) |-> LowerRune(s[i])]

HasPrefix_anyCase(s, prefix) ==
  /\ Len(s) >= Len(prefix)
  /\ ToLower(SubSeq(s, 1, Len(prefix))) = ToLower(prefix)

HasPrefix(s, prefix) ==
  /\ Len(s) >= Len(prefix)
  /\ SubSeq(s, 1, Len(prefix)) = prefix

\* strings.Index(s, c) for a one-character c, as a 1-based position;
\* 0 stands for Go's -1
Index_last(s, c) ==
  IF \E i \in 1..Len(s) : s[i] = c
    THEN CHOOSE i \in 1..Len(s) : s[i] = c /\ \A j \in (i+1)..Len(s) : s[j] # c
    ELSE 0

Index(s, c) ==
  IF \E i \in 1..Len(s) : s[i] = c
    THEN CHOOSE i \in 1..Len(s) : s[i] = c /\ \A j \in 1..(i-1) : s[j] # c
    ELSE 0

\* strings.Split(s, c) for a one-character separator c
RECURSIVE Split(_, _)
Split(s, c) ==
  LET i == Index(s, c)
  IN  IF i = 0 THEN <<s>>
      ELSE <<SubSeq(s, 1, i - 1)>> \o Split(SubSeq(s, i + 1, Len(s)), c)

RECURSIVE TrimLeft(_, _)
TrimLeft(s, cutset) ==
  IF s # <<>> /\ s[1] \in cutset THEN TrimLeft(Tail(s), cutset) ELSE s

RECURSIVE TrimRight(_, _)
TrimRight(s, cutset) ==
  IF s # <<>> /\ s[Len(s)] \in cutset
    THEN TrimRight(SubSeq(s, 1, Len(s) - 1), cutset)
    ELSE s

\* one quote at most from each end
Trim_oneLayer(s, cutset) ==
  LET a == IF s # <<>> /\ s[1] \in cutset THEN Tail(s) ELSE s
  IN  IF a # <<>> /\ a[Len(a)] \in cutset THEN SubSeq(a, 1, Len(a) - 1) ELSE a

\* strings.Trim(s, cutset): every leading and trailing character of cutset
Trim(s, cutset) == TrimRight(TrimLeft(s, cutset), cutset)

\* strconv.Quote, the %q verb, on printable ASCII: the string in double
\* quotes with " and \ escaped by a backslash
RECURSIVE QuoteBody(_)
QuoteBody(s) ==
  IF s = <<>> THEN <<>>
  ELSE (IF s[1] = "\"" \/ s[1] = "\\" THEN <<"\\", s[1]>> ELSE <<s[1]>>)
         \o QuoteBody(Tail(s))

Quote(s) == <<"\"">> \o QuoteBody(s) \o <<"\"">>

(* ------------------------------ errors -------------------------------- *)

\* an error value: nil, or its format (a literal message, or the text
\* before its one verb) and the rendered argument of the verb
NilErr == [nil |-> TRUE, format |-> "", arg |-> <<>>]

ErrorsNew(text) == [nil |-> FALSE, format |-> text, arg |-> <<>>]

ErrArityFormat ==
  "jsonpath wait format must be --for=jsonpath='{.status.readyReplicas}'=3"

ErrEmptyExpression == "jsonpath expression cannot be empty"

ErrEmptyCondition == "jsonpath wait condition cannot be empty"

ErrUnrecognizedFormat == "unrecognized condition: %q"

\* the text of ErrUnrecognizedFormat before its verb
UnrecognizedText ==
  <<"u","n","r","e","c","o","g","n","i","z","e","d"," ",
    "c","o","n","d","i","t","i","o","n",":"," ">>

\* Error() of an error made from ErrUnrecognizedFormat
Error(e) == UnrecognizedText \o e.arg

(* ------------- get.RelaxedJSONPathExpression (pkg/cmd/get) ------------ *)

NoBrace(s) == \A i \in 1..Len(s) : s[i] # "{" /\ s[i] # "}"

\* the field specification: the text with one optional leading dot dropped
\* (the dot stays when nothing else would be left)
FieldSpec(s) == IF Len(s) >= 2 /\ s[1] = "." THEN Tail(s) ELSE s

ErrUnexpectedPath ==
  "unexpected path string, expected a 'name1.name2' or '.name1.name2' or '{name1.name2}' or '{.name1.name2}'"

\* "" stays "", {.x} {x} .x and x all become {.x}; anything else with a
\* brace in it is rejected
RelaxedJSONPathExpression(pathExpression) ==
  LET n == Len(pathExpression)
      inner == SubSeq(pathExpression, 2, n - 1)
      wrap(f) == <<"{", ".">> \o f \o <<"}">>
  IN  IF n = 0 THEN [exp |-> <<>>, err |-> NilErr]
      ELSE IF /\ n >= 3
              /\ pathExpression[1] = "{"
              /\ pathExpression[n] = "}"
              /\ NoBrace(inner)
        THEN [exp |-> wrap(FieldSpec(inner)), err |-> NilErr]
      ELSE IF NoBrace(pathExpression)
        THEN [exp |-> wrap(FieldSpec(pathExpression)), err |-> NilErr]
      ELSE [exp |-> <<>>, err |-> ErrorsNew(ErrUnexpectedPath)]

(* ---------------- jsonpath.Parse (client-go/util/jsonpath) ------------ *)

\* isTerminator, on the characters of the input domains
IsTerminator(c) == c \in {".", "[", "{", "}"}

\* first position >= i holding a terminator, Len(s)+1 at the end of input
RECURSIVE NextTerminator(_, _)
NextTerminator(s, i) ==
  IF i > Len(s) \/ IsTerminator(s[i]) THEN i ELSE NextTerminator(s, i + 1)

\* first position >= i holding the character q, 0 when there is none
RECURSIVE NextQuote(_, _, _)
NextQuote(s, i, q) ==
  IF i > Len(s) THEN 0
  ELSE IF s[i] = q THEN i
  ELSE NextQuote(s, i + 1, q)

\* the parser's error message for the text s read from position i, "" when
\* it parses: outside an action (inside = FALSE) everything up to "{" is
\* text; inside one, lastRec says the last node is a recursive descent
RECURSIVE ParseFrom(_, _, _, _)
ParseFrom(s, i, inside, lastRec) ==
  IF ~inside THEN
    IF i > Len(s) THEN ""
    ELSE IF s[i] = "{" THEN ParseFrom(s, i + 1, TRUE, FALSE)
    ELSE ParseFrom(s, i + 1, FALSE, FALSE)
  ELSE
    IF i > Len(s) THEN "unclosed action"
    ELSE IF s[i] = "}" THEN ParseFrom(s, i + 1, FALSE, FALSE)
    ELSE IF i < Len(s) /\ s[i] = "." /\ s[i + 1] = "." THEN
      IF lastRec THEN "invalid multiple recursive descent"
      ELSE IF i + 2 <= Len(s) /\ s[i + 2] = "d"
        THEN ParseFrom(s, NextTerminator(s, i + 2), TRUE, FALSE)
      ELSE ParseFrom(s, i + 2, TRUE, TRUE)
    ELSE IF s[i] = "[" THEN "unterminated array"
    ELSE IF s[i] = "'" \/ s[i] = "\"" THEN
      LET j == NextQuote(s, i + 1, s[i])
      IN  IF j = 0 THEN "unterminated quoted string"
          ELSE ParseFrom(s, j + 1, TRUE, FALSE)
    ELSE IF s[i] = "." THEN ParseFrom(s, NextTerminator(s, i + 1), TRUE, FALSE)
    ELSE IF s[i] = "d" THEN ParseFrom(s, NextTerminator(s, i), TRUE, FALSE)
    ELSE "unrecognized character in action"

\* j.Parse(text): the compiled path (its text) or the parser's error
Parse(text) ==
  LET m == ParseFrom(text, 1, FALSE, FALSE)
  IN  IF m = "" THEN NilErr ELSE ErrorsNew(m)

(* ----------------------------- waiter.go ------------------------------ *)

\* a *Waiter: nil, or what its constructor was given
NilWaiter ==
  [kind |-> "nil", conditionName |-> <<>>, conditionValue |-> <<>>,
   jsonPathCond |-> <<>>, j |-> <<>>]

NewDeletionWaiter ==
  [kind |-> "Deletion", conditionName |-> <<>>, conditionValue |-> <<>>,
   jsonPathCond |-> <<>>, j |-> <<>>]

NewConditionalWaiter(conditionName, conditionValue) ==
  [kind |-> "NamedCondition", conditionName |-> conditionName,
   conditionValue |-> conditionValue, jsonPathCond |-> <<>>, j |-> <<>>]

NewJSONPathWaiter(jsonPathCond, j) ==
  [kind |-> "JSONPath", conditionName |-> <<>>, conditionValue |-> <<>>,
   jsonPathCond |-> jsonPathCond, j |-> j]

\* a compiled path, nil or the expression it was parsed from
NilPath == [nil |-> TRUE, exp |-> <<>>]

\* newJSONPathParser without its empty-expression test
newJSONPathParser_noEmptyTest(jsonPathExpression) ==
  IF ~Parse(jsonPathExpression).nil
    THEN [j |-> NilPath, err |-> Parse(jsonPathExpression)]
    ELSE [j |-> [nil |-> FALSE, exp |-> jsonPathExpression], err |-> NilErr]

newJSONPathParser(jsonPathExpression) ==
  IF jsonPathExpression = <<>>
    THEN [j |-> NilPath, err |-> ErrorsNew(ErrEmptyExpression)]
  ELSE IF ~Parse(jsonPathExpression).nil
    THEN [j |-> NilPath, err |-> Parse(jsonPathExpression)]
  ELSE [j |-> [nil |-> FALSE, exp |-> jsonPathExpression], err |-> NilErr]

QuoteCutset == {"'", "\""}

\* processJSONPathInput with the empty-condition test dropped
processJSONPathInput_noEmptyTest(jsonPathExpression, jsonPathCond) ==
  LET relaxed == RelaxedJSONPathExpression(jsonPathExpression)
  IN  IF ~relaxed.err.nil
        THEN [exp |-> <<>>, cond |-> <<>>, err |-> relaxed.err]
      ELSE [exp |-> relaxed.exp, cond |-> Trim(jsonPathCond, QuoteCutset),
            err |-> NilErr]

processJSONPathInput(jsonPathExpression, jsonPathCond) ==
  LET relaxed == RelaxedJSONPathExpression(jsonPathExpression)
  IN  IF ~relaxed.err.nil
        THEN [exp |-> <<>>, cond |-> <<>>, err |-> relaxed.err]
      ELSE IF jsonPathCond = <<>>
        THEN [exp |-> <<>>, cond |-> <<>>, err |-> ErrorsNew(ErrEmptyCondition)]
      ELSE [exp |-> relaxed.exp, cond |-> Trim(jsonPathCond, QuoteCutset),
            err |-> NilErr]

DeleteLit == <<"d","e","l","e","t","e">>

ConditionPrefix == <<"c","o","n","d","i","t","i","o","n","=">>

JSONPathPrefix == <<"j","s","o","n","p","a","t","h","=">>

TrueLit == <<"t","r","u","e">>

\* the deletion test, as a prefix test
IsDelete_prefix(condition) == HasPrefix(ToLower(condition), DeleteLit)

\* line 31
IsDelete(condition) == ToLower(condition) = DeleteLit

\* the condition= branch, splitting at the last "="
conditionWaiter_lastIndex(condition) ==
  LET rest == SubSeq(condition, Len(ConditionPrefix) + 1, Len(condition))
      equalsIndex == Index_last(rest, "=")
  IN  IF equalsIndex # 0
        THEN NewConditionalWaiter(SubSeq(rest, 1, equalsIndex - 1),
                                  SubSeq(rest, equalsIndex + 1, Len(rest)))
        ELSE NewConditionalWaiter(rest, TrueLit)

\* lines 35-42: the condition= branch
conditionWaiter(condition) ==
  LET rest == SubSeq(condition, Len(ConditionPrefix) + 1, Len(condition))
      equalsIndex == Index(rest, "=")
  IN  IF equalsIndex # 0
        THEN NewConditionalWaiter(SubSeq(rest, 1, equalsIndex - 1),
                                  SubSeq(rest, equalsIndex + 1, Len(rest)))
        ELSE NewConditionalWaiter(rest, TrueLit)

\* the arity test accepting three fields or more
BadArity_atLeast(splitStr) == Len(splitStr) < 3

\* line 46
BadArity(splitStr) == Len(splitStr) # 3

\* lines 45-57: the jsonpath= branch
jsonPathWaiter(condition) ==
  LET splitStr == Split(condition, "=")
  IN  IF BadArity(splitStr)
        THEN [waiter |-> NilWaiter, err |-> ErrorsNew(ErrArityFormat)]
      ELSE
        LET in == processJSONPathInput(splitStr[2], splitStr[3])
        IN  IF ~in.err.nil THEN [waiter |-> NilWaiter, err |-> in.err]
            ELSE
              LET p == newJSONPathParser(in.exp)
              IN  IF ~p.err.nil THEN [waiter |-> NilWaiter, err |-> p.err]
                  ELSE [waiter |-> NewJSONPathWaiter(in.cond, p.j.exp),
                        err |-> NilErr]

\* the unrecognized-condition error with the condition printed as it is
unrecognized_verbatim(condition) ==
  [nil |-> FALSE, format |-> ErrUnrecognizedFormat, arg |-> condition]

\* line 60: fmt.Errorf("unrecognized condition: %q", condition)
unrecognized(condition) ==
  [nil |-> FALSE, format |-> ErrUnrecognizedFormat, arg |-> Quote(condition)]

waiterFor(condition) ==
  IF IsDelete(condition)
    THEN [waiter |-> NewDeletionWaiter, err |-> NilErr]
  ELSE IF HasPrefix(condition, ConditionPrefix)
    THEN [waiter |-> conditionWaiter(condition), err |-> NilErr]
  ELSE IF HasPrefix(condition, JSONPathPrefix)
    THEN jsonPathWaiter(condition)
  ELSE [waiter |-> NilWaiter, err |-> unrecognized(condition)]

(* --------------------------- state machine ---------------------------- *)

\* what a call returns, in one shape for the three functions
Ret(w, e, exp, cond, j) ==
  [waiter |-> w, err |-> e, exp |-> exp, cond |-> cond, j |-> j]

NoRet == Ret(NilWaiter, NilErr, <<>>, <<>>, NilPath)

Init ==
  /\ pc = "call"
  /\ ret = NoRet
  /\ \/ call = "waiterFor" /\ args \in {<<c>> : c \in Conditions}
     \/ call = "processJSONPathInput"
          /\ args \in {<<p, c>> : p \in PathExprs, c \in CondExprs}
     \/ call = "newJSONPathParser" /\ args \in {<<p>> : p \in PathExprs}

WaiterFor ==
  /\ pc = "call" /\ call = "waiterFor"
  /\ LET r == waiterFor(args[1])
     IN  ret' = Ret(r.waiter, r.err, <<>>, <<>>, NilPath)
  /\ pc' = "return"
  /\ UNCHANGED <<call, args>>

ProcessJSONPathInput ==
  /\ pc = "call" /\ call = "processJSONPathInput"
  /\ LET r == processJSONPathInput(args[1], args[2])
     IN  ret' = Ret(NilWaiter, r.err, r.exp, r.cond, NilPath)
  /\ pc' = "return"
  /\ UNCHANGED <<call, args>>

NewJSONPathParser ==
  /\ pc = "call" /\ call = "newJSONPathParser"
  /\ LET r == newJSONPathParser(args[1])
     IN  ret' = Ret(NilWaiter, r.err, <<>>, <<>>, r.j)
  /\ pc' = "return"
  /\ UNCHANGED <<call, args>>

Next == WaiterFor \/ ProcessJSONPathInput \/ NewJSONPathParser

Spec == Init /\ [][Next]_vars

(* ------------------------ properties: helpers ------------------------- *)

Returned(f) == pc = "return" /\ call = f

StartsWith(s, p) == Len(s) >= Len(p) /\ \A i \in 1..Len(p) : s[i] = p[i]

After(s, p) == SubSeq(s, Len(p) + 1, Len(s))

CountOf(s, c) == Cardinality({i \in 1..Len(s) : s[i] = c})

Contains(s, sub) ==
  \E i \in 0..(Len(s) - Len(sub)) : SubSeq(s, i + 1, i + Len(sub)) = sub

IsQuote(c) == c = "'" \/ c = "\""

\* "delete" in any mix of upper and lower case
AnyCaseDelete(s) ==
  /\ Len(s) = 6
  /\ s[1] \in {"d", "D"} /\ s[2] \in {"e", "E"} /\ s[3] \in {"l", "L"}
  /\ s[4] \in {"e", "E"} /\ s[5] \in {"t", "T"} /\ s[6] \in {"e", "E"}

\* a path the relaxation accepts: no brace at all, or one pair of braces
\* around a non-empty text without braces
Relaxable(p) ==
  \/ \A i \in 1..Len(p) : p[i] \notin {"{", "}"}
  \/ /\ Len(p) >= 3 /\ p[1] = "{" /\ p[Len(p)] = "}"
     /\ \A i \in 2..(Len(p) - 1) : p[i] \notin {"{", "}"}

\* a non-empty path that relaxes and then compiles
ValidPath(p) ==
  /\ p # <<>>
  /\ RelaxedJSONPathExpression(p).err.nil
  /\ Parse(RelaxedJSONPathExpression(p).exp).nil

\* the reading of a double-quoted Go string, <<"invalid">> when q is none
RECURSIVE Unescape(_)
Unescape(b) ==
  IF b = <<>> THEN <<>>
  ELSE IF b[1] = "\\" /\ Len(b) >= 2 THEN <<b[2]>> \o Unescape(SubSeq(b, 3, Len(b)))
  ELSE <<b[1]>> \o Unescape(Tail(b))

Unquote(q) ==
  IF Len(q) >= 2 /\ q[1] = "\"" /\ q[Len(q)] = "\""
    THEN Unescape(SubSeq(q, 2, Len(q) - 1))
    ELSE <<"invalid">>

Unrecognizable(s) ==
  /\ ~AnyCaseDelete(s)
  /\ ~StartsWith(s, ConditionPrefix)
  /\ ~StartsWith(s, JSONPathPrefix)

(* ----------------------------- properties ----------------------------- *)

\* C1: a condition jsonpath=<rest> with zero or with two or more "=" in
\* <rest> returns no waiter and the arity error, whatever path and value
\* are; with exactly one "=", a non-empty valid path and a non-empty value
\* it returns a JSONPath waiter and no error.
C1_JSONPathArity ==
  (Returned("waiterFor") /\ StartsWith(args[1], JSONPathPrefix)) =>
    LET rest == After(args[1], JSONPathPrefix)
        n == CountOf(rest, "=")
        k == CHOOSE i \in 1..Len(rest) : rest[i] = "="
    IN  /\ n # 1 =>
             ret.waiter = NilWaiter /\ ret.err = ErrorsNew(ErrArityFormat)
        /\ (/\ n = 1
            /\ ValidPath(SubSeq(rest, 1, k - 1))
            /\ SubSeq(rest, k + 1, Len(rest)) # <<>>) =>
             ret.waiter.kind = "JSONPath" /\ ret.err.nil

C1_Witness ==
  /\ Returned("waiterFor")
  /\ ret.waiter.kind = "JSONPath"
  /\ CountOf(After(args[1], JSONPathPrefix), "=") = 1

\* C2 as stated: the returned expected value is condExpr with at most one
\* quote character removed from the front and at most one from the back.
C2_OneLayerOnly ==
  (Returned("processJSONPathInput") /\ ret.err.nil) =>
    LET c == args[2]
    IN  \E a \in {0, 1}, b \in {0, 1} :
          /\ a + b <= Len(c)
          /\ a = 1 => IsQuote(c[1])
          /\ b = 1 => IsQuote(c[Len(c)])
          /\ ret.cond = SubSeq(c, 1 + a, Len(c) - b)

\* C2 amended: the returned expected value is condExpr with every leading
\* and every trailing quote character removed, so it neither starts nor
\* ends with a quote; quotes inside it are kept.
C2_AllSurroundingQuotes ==
  (Returned("processJSONPathInput") /\ ret.err.nil) =>
    LET c == args[2]
    IN  /\ \E a \in 0..Len(c), b \in 0..Len(c) :
             /\ a + b <= Len(c)
             /\ \A i \in 1..a : IsQuote(c[i])
             /\ \A i \in (Len(c) - b + 1)..Len(c) : IsQuote(c[i])
             /\ ret.cond = SubSeq(c, 1 + a, Len(c) - b)
        /\ ret.cond # <<>> =>
             ~IsQuote(ret.cond[1]) /\ ~IsQuote(ret.cond[Len(ret.cond)])

C2_Witness ==
  /\ Returned("processJSONPathInput")
  /\ ret.err.nil
  /\ Len(args[2]) >= 3
  /\ IsQuote(args[2][1]) /\ IsQuote(args[2][2])
  /\ ret.cond # <<>>

\* C3: a condition condition=<rest> returns a named-condition waiter and
\* no error; without "=" in <rest> the name is <rest> and the value is
\* "true", otherwise <rest> is name, "=", value with no "=" in the name.
C3_ConditionSplit ==
  (Returned("waiterFor") /\ StartsWith(args[1], ConditionPrefix)) =>
    LET rest == After(args[1], ConditionPrefix)
        w == ret.waiter
    IN  /\ ret.err.nil
        /\ w.kind = "NamedCondition"
        /\ CountOf(rest, "=") = 0 =>
             w.conditionName = rest /\ w.conditionValue = TrueLit
        /\ CountOf(rest, "=") > 0 =>
             /\ w.conditionName \o <<"=">> \o w.conditionValue = rest
             /\ CountOf(w.conditionName, "=") = 0

C3_Witness ==
  /\ Returned("waiterFor")
  /\ ret.waiter.kind = "NamedCondition"
  /\ ret.waiter.conditionName # <<>>
  /\ CountOf(ret.waiter.conditionValue, "=") > 0

\* C4: the deletion waiter is returned exactly for the conditions that are
\* "delete" in some mix of cases, and "deleted" is an unrecognized
\* condition.
C4_DeleteExact ==
  Returned("waiterFor") =>
    /\ (ret.waiter.kind = "Deletion" /\ ret.err.nil) <=> AnyCaseDelete(args[1])
    /\ args[1] = DeleteLit \o <<"d">> =>
         ret.waiter = NilWaiter /\ ret.err.format = ErrUnrecognizedFormat

C4_Witness ==
  /\ Returned("waiterFor")
  /\ args[1] = <<"D","E","L","E","T","E">>
  /\ ret.waiter.kind = "Deletion"

\* C5 as stated: an empty condExpr gives the empty-condition error for
\* every pathExpr.
C5_EmptyCondAnyPath ==
  (Returned("processJSONPathInput") /\ args[2] = <<>>) =>
    ret.err = ErrorsNew(ErrEmptyCondition)

\* C5 amended: an empty condExpr gives the empty-condition error, which is
\* not the empty-expression error, for every pathExpr that is empty or that
\* the relaxation accepts; for a pathExpr the relaxation rejects, the
\* relaxation's error is returned instead.
C5_EmptyCondRelaxablePath ==
  (Returned("processJSONPathInput") /\ args[2] = <<>>) =>
    /\ Relaxable(args[1]) =>
         /\ ret.err = ErrorsNew(ErrEmptyCondition)
         /\ ret.err # ErrorsNew(ErrEmptyExpression)
    /\ ~Relaxable(args[1]) => ret.err = ErrorsNew(ErrUnexpectedPath)

C5_Witness ==
  /\ Returned("processJSONPathInput")
  /\ args = <<<<"{", "d", "}">>, <<>>>>
  /\ ret.err.format = ErrEmptyCondition

\* C6: jsonpath==<val>, <val> non-empty and without "=", returns no waiter
\* and the empty-expression error; newJSONPathParser returns no compiled
\* path for the empty string.
C6_EmptyPath ==
  /\ (Returned("waiterFor") /\ StartsWith(args[1], JSONPathPrefix \o <<"=">>)) =>
       LET val == After(args[1], JSONPathPrefix \o <<"=">>)
       IN  (val # <<>> /\ CountOf(val, "=") = 0) =>
             ret.waiter = NilWaiter /\ ret.err = ErrorsNew(ErrEmptyExpression)
  /\ (Returned("newJSONPathParser") /\ args[1] = <<>>) =>
       ret.j.nil /\ ret.err = ErrorsNew(ErrEmptyExpression)

C6_Witness ==
  /\ Returned("waiterFor")
  /\ args[1] = JSONPathPrefix \o <<"=", "d">>
  /\ ret.err.format = ErrEmptyExpression

\* C7 as stated: a condition that is neither "delete" in any case nor
\* starts with condition= or jsonpath= returns no waiter and the
\* unrecognized-condition error, whose message contains the condition
\* unchanged.
C7_MessageHoldsInput ==
  (Returned("waiterFor") /\ Unrecognizable(args[1])) =>
    /\ ret.waiter = NilWaiter
    /\ ret.err.format = ErrUnrecognizedFormat
    /\ Contains(Error(ret.err), args[1])

\* C7 amended: such a condition returns no waiter and the
\* unrecognized-condition error, whose message carries the condition as a
\* double-quoted Go string: it reads back as the condition, and the message
\* contains the condition unchanged when the condition has no double quote
\* and no backslash.
C7_MessageQuotesInput ==
  (Returned("waiterFor") /\ Unrecognizable(args[1])) =>
    /\ ret.waiter = NilWaiter
    /\ ~ret.err.nil
    /\ ret.err.format = ErrUnrecognizedFormat
    /\ Unquote(ret.err.arg) = args[1]
    /\ (\A i \in 1..Len(args[1]) : args[1][i] \notin {"\"", "\\"}) =>
         Contains(Error(ret.err), args[1])

C7_Witness ==
  /\ Returned("waiterFor")
  /\ StartsWith(args[1], <<"f", "o", "o", "=">>)
  /\ CountOf(args[1], "\"") > 0
  /\ ret.err.format = ErrUnrecognizedFormat

\* C9: waiterFor returns a waiter or an error, never both and never
\* neither; a deletion waiter only for "delete" in some mix of cases, a
\* named-condition waiter only for a condition starting with condition=, a
\* JSONPath waiter only for one starting with jsonpath=.
C9_KindMatchesPrefix ==
  Returned("waiterFor") =>
    /\ (ret.waiter = NilWaiter) <=> ~ret.err.nil
    /\ ret.waiter.kind \in {"nil", "Deletion", "NamedCondition", "JSONPath"}
    /\ ret.waiter.kind = "Deletion" => AnyCaseDelete(args[1])
    /\ ret.waiter.kind = "NamedCondition" => StartsWith(args[1], ConditionPrefix)
    /\ ret.waiter.kind = "JSONPath" => StartsWith(args[1], JSONPathPrefix)

C9_Witness ==
  /\ Returned("waiterFor")
  /\ ret.waiter.kind = "NamedCondition"
  /\ ret.waiter.conditionName = <<>>

\* C10: a returned JSONPath waiter, and a successful return of
\* processJSONPathInput, carries a non-empty expected value.
C10_ExpectedValueNonEmpty ==
  /\ (Returned("waiterFor") /\ ret.waiter.kind = "JSONPath") =>
       ret.waiter.jsonPathCond # <<>>
  /\ (Returned("processJSONPathInput") /\ ret.err.nil) => ret.cond # <<>>

====
